---- MODULE Spec2Model ----
(***************************************************************************)
(* Moltr API: the tag registry (POST /tags/register, PATCH /tags/me), the  *)
(* API-key authentication hook and the receipt routes (create, list, get), *)
(* as a state machine over the two Prisma tables.  Every request is a      *)
(* process that advances one await at a time, so that requests interleave  *)
(* exactly where the Node event loop lets them.                            *)
(***************************************************************************)
EXTENDS Integers, Sequences, FiniteSets, TLC

(***************************************************************************)
(* Bounds of the model.                                                    *)
(***************************************************************************)
\* receipts the store may hold
MaxReceipts == 2
\* last value of the wall clock that stamps createdAt
MaxTime == 1
\* receipts the store may hold while a client pages through them
MaxPaged == 3
\* objects in the bucket in SpecAll
MaxObjects == 1

(***************************************************************************)
(* Program constants.                                                      *)
(***************************************************************************)
DEFAULT_LIMIT == 20
MAX_LIMIT == 100
\* resolveTagFromApiKey: apiKey.length < 16 is rejected
MinKeyLength == 16
\* generateApiKey: randomBytes(32).toString("base64url") has 43 characters
GeneratedKeyLength == 43
\* registerBody: username .min(3) .max(20)
MinUsernameLength == 3
MaxUsernameLength == 20
RECEIPT_BASE_URL == "https://api.moltr.app/r"

(***************************************************************************)
(* Input alphabets.  Usernames are sequences of characters so that the     *)
(* length and charset checks of registerBody are computed, not assumed.    *)
(***************************************************************************)
Ann == <<"a", "n", "n">>
Bob == <<"b", "o", "b">>
Cat == <<"c", "a", "t">>
\* valid username that nobody registers
Zed == <<"z", "e", "d">>
\* too short for registerBody
TooShort == <<"a", "b">>
\* upper case is outside [a-z0-9_]
UpperBob == <<"B", "o", "b">>

LowerChars == {"a", "b", "c", "d", "e", "f", "g", "h", "i", "j", "k", "l", "m",
               "n", "o", "p", "q", "r", "s", "t", "u", "v", "w", "x", "y", "z"}
DigitChars == {"0", "1", "2", "3", "4", "5", "6", "7", "8", "9"}
UsernameChars == LowerChars \cup DigitChars \cup {"_"}

\* the requests in flight at the same time
Slots == {1, 2}

VARIABLES
  tags,       \* table Tag: sequence of rows in insertion order, row i has id i
  receipts,   \* table Receipt: sequence of rows in insertion order, row i has id i
  now,        \* the wall clock read by createdAt's default
  req,        \* the requests in flight, one per slot
  issued,     \* history: issued[i] is the plaintext key returned when tag i was created
  creator,    \* history: creator[i] is the id of the identity whose request created receipt i
  walk,       \* a client that follows nextCursor from the first page to the last
  bucket,     \* the S3 bucket: the objects PutObjectCommand has stored
  shown,      \* history: the plaintext keys that have left in a reply, in order
  created     \* history: created[i] is the body sent and the reply got when receipt i was created

vars == <<tags, receipts, now, req, issued, creator, walk, bucket, shown, created>>

(***************************************************************************)
(* lib/auth.ts                                                             *)
(***************************************************************************)
\* a header value: absent, or a string of some length and content
NoHeader == [present |-> FALSE, len |-> 0, tok |-> 0]
KeyString(len, tok) == [present |-> TRUE, len |-> len, tok |-> tok]

\* the request's tag when none is attached, and Prisma's null for a Tag
NoTag == [id |-> 0, username |-> <<>>]

\* argon2id: the digest is a one-way function of salt and input
Argon2Digest(salt, plain) == <<salt, plain.len, plain.tok>>

hashApiKey(plain, salt) == [salt |-> salt, digest |-> Argon2Digest(salt, plain)]

\* verifyApiKey that compares the lengths only
verifyApiKeyByLength(plain, hash) == plain.len = hash.digest[2]

\* argon2.verify(hash, plain) on a hash hashApiKey has made
verifyApiKey(plain, hash) == Argon2Digest(hash.salt, plain) = hash.digest

\* a stored hash that is no encoded argon2 hash at all (empty, cut off before
\* its parameters), and one that is encoded but is the hash of no key
UnparsableHash == [salt |-> 0, digest |-> <<>>]
ForeignHash == [salt |-> 0, digest |-> <<0, 0, 0>>]

\* argon2.verify first decodes the stored string and its promise rejects when
\* the string cannot be decoded; verifyApiKey awaits it without a try/catch
Argon2Rejects(hash) == Len(hash.digest) # 3

generateApiKey(entropy) == KeyString(GeneratedKeyLength, entropy)

\* !apiKey || typeof apiKey !== "string" || apiKey.length < 16
RejectedEarly(apiKey) ==
  \/ ~apiKey.present
  \/ apiKey.len = 0
  \/ apiKey.len < MinKeyLength

\* what resolveTagFromApiKey gives when verifyApiKey raises: no value, the
\* exception passes through resolveTagFromApiKey and requireApiKey
Raised == [id |-> 0 - 1, username |-> <<>>]

\* the resolver's result made of the whole row
TagIdentityWholeRow(row) == row

\* { id: tag.id, username: tag.username }
TagIdentity(row) == [id |-> row.id, username |-> row.username]

RECURSIVE ScanTags(_, _, _)
ScanTags(apiKey, rows, i) ==
  IF i > Len(rows) THEN NoTag
  ELSE IF Argon2Rejects(rows[i].apiKeyHash) THEN Raised
  ELSE IF verifyApiKey(apiKey, rows[i].apiKeyHash)
       THEN TagIdentity(rows[i])
       ELSE ScanTags(apiKey, rows, i + 1)

resolveTagFromApiKey(apiKey, rows) ==
  IF RejectedEarly(apiKey) THEN NoTag ELSE ScanTags(apiKey, rows, 1)

\* whether resolveTagFromApiKey reaches prisma.tag.findMany()
ResolveReadsStore(apiKey) == ~RejectedEarly(apiKey)

Unauthorized == [code |-> 401, message |-> "Invalid or missing API key"]

\* requireApiKey that replies 401 and lets the request go on
AfterRequireApiKeyNoReturn(tag) == "handler"

\* requireApiKey: where the request goes after the hook
AfterRequireApiKey(tag) == IF tag = NoTag THEN "done" ELSE "handler"

(***************************************************************************)
(* Prisma tables                                                           *)
(***************************************************************************)
\* prisma.tag.findUnique({ where: { username } }): the row or null (NoTagRow)
NoTagRow == [id |-> 0, username |-> <<>>, walletAddress |-> "", apiKeyHash |-> [salt |-> 0, digest |-> <<>>]]

TagByUsername(rows, username) ==
  IF \E i \in 1..Len(rows) : rows[i].username = username
  THEN rows[CHOOSE i \in 1..Len(rows) : rows[i].username = username]
  ELSE NoTagRow

TagById(rows, id) ==
  IF id \in 1..Len(rows) THEN rows[id] ELSE NoTagRow

\* the Tag table without its unique index
NoUniqueIndex(rows, username) == TRUE

\* CREATE UNIQUE INDEX "Tag_username_key": whether an insert of username is accepted
Tag_username_key(rows, username) ==
  \A i \in 1..Len(rows) : rows[i].username # username

(***************************************************************************)
(* routes/tags.ts                                                          *)
(***************************************************************************)
\* registerBody.safeParse
ValidUsername(u) ==
  /\ Len(u) >= MinUsernameLength
  /\ Len(u) <= MaxUsernameLength
  /\ \A i \in 1..Len(u) : u[i] \in UsernameChars

registerBodyOk(body) == ValidUsername(body.username) /\ body.walletAddress # ""

updateWalletBodyOk(body) == body.walletAddress # ""

ValidationFailed == [code |-> 400, message |-> "Validation failed"]
UsernameTaken == [code |-> 409, message |-> "Username already registered"]
\* Fastify's default error handler, for an exception thrown by a handler
InternalError == [code |-> 500, message |-> "Internal Server Error"]

Idle == [op |-> "idle", pc |-> "idle"]

IsIdle(s) == req[s].op = "idle"

\* a reply is written out in the turn of the event loop that produced it,
\* before any other callback runs: no reply is waiting to leave
Quiet == \A s \in Slots : req[s].pc # "done"

\* a request takes the lowest free slot
FreeSlot(s) == IsIdle(s) /\ \A t \in Slots : t < s => ~IsIdle(t)

\* randomBytes that gives the same bytes every time
FixedEntropy(s) == 1

\* randomBytes: a value no earlier call returned.  Which fresh value is drawn
\* is immaterial, so the draw of the request in slot s is named by the number
\* of tags stored at that moment and by s: two draws with the same name are
\* made by two requests of one slot with no tag created in between, and the
\* first of them ended without storing its draw.
FreshEntropy(s) == Len(tags) * Cardinality(Slots) + s

\* POST /register: safeParse, then await prisma.tag.findUnique({ where: { username } })
RegisterFind(s, username, walletAddress) ==
  /\ Quiet
  /\ FreeSlot(s)
  /\ LET body == [username |-> username, walletAddress |-> walletAddress]
         r == [op |-> "register", pc |-> "hash", body |-> body]
     IN IF ~registerBodyOk(body)
        THEN req' = [req EXCEPT ![s] = [r EXCEPT !.pc = "done"] @@ [resp |-> ValidationFailed]]
        ELSE IF TagByUsername(tags, username) # NoTagRow
             THEN req' = [req EXCEPT ![s] = [r EXCEPT !.pc = "done"] @@ [resp |-> UsernameTaken]]
             ELSE req' = [req EXCEPT ![s] = r]
  /\ UNCHANGED <<tags, receipts, now, issued, creator, walk, bucket, shown, created>>

\* generateApiKey(), then await hashApiKey(apiKey)
RegisterHash(s) ==
  /\ Quiet
  /\ req[s].op = "register" /\ req[s].pc = "hash"
  /\ LET apiKey == generateApiKey(FreshEntropy(s))
     IN req' = [req EXCEPT ![s] = [req[s] EXCEPT !.pc = "create"]
                  @@ [apiKey |-> apiKey, apiKeyHash |-> hashApiKey(apiKey, FreshEntropy(s))]]
  /\ UNCHANGED <<tags, receipts, now, issued, creator, walk, bucket, shown, created>>

\* await prisma.tag.create(...), then reply 201; the unique index rejects a
\* second row with the username, and the handler does not catch the exception
RegisterCreate(s) ==
  /\ Quiet
  /\ req[s].op = "register" /\ req[s].pc = "create"
  /\ IF Tag_username_key(tags, req[s].body.username)
     THEN LET row == [id |-> Len(tags) + 1,
                      username |-> req[s].body.username,
                      walletAddress |-> req[s].body.walletAddress,
                      apiKeyHash |-> req[s].apiKeyHash]
          IN /\ tags' = Append(tags, row)
             /\ issued' = Append(issued, req[s].apiKey)
             /\ req' = [req EXCEPT ![s] = [req[s] EXCEPT !.pc = "done"]
                          @@ [resp |-> [code |-> 201, username |-> row.username,
                                        walletAddress |-> row.walletAddress,
                                        apiKey |-> req[s].apiKey]]]
     ELSE /\ req' = [req EXCEPT ![s] = [req[s] EXCEPT !.pc = "done"] @@ [resp |-> InternalError]]
          /\ UNCHANGED <<tags, issued>>
  /\ UNCHANGED <<receipts, now, creator, walk, bucket, shown, created>>

\* the preHandler hook requireApiKey of a protected route: the request
\* arrives, the hook resolves its x-api-key header and attaches the tag
Hook(s, op, key, body, walker) ==
  /\ Quiet
  /\ FreeSlot(s)
  /\ LET tag == resolveTagFromApiKey(key, tags)
         r == [op |-> op, pc |-> AfterRequireApiKey(tag), key |-> key, tag |-> tag,
               readStore |-> ResolveReadsStore(key), body |-> body, walker |-> walker]
     IN IF tag = Raised
        THEN req' = [req EXCEPT ![s] = [r EXCEPT !.pc = "done", !.tag = NoTag]
                                         @@ [resp |-> InternalError]]
        ELSE IF tag = NoTag
        THEN req' = [req EXCEPT ![s] = r @@ [resp |-> Unauthorized]]
        ELSE req' = [req EXCEPT ![s] = r]

RequireApiKey(s, op, key, body) ==
  /\ Hook(s, op, key, body, FALSE)
  /\ UNCHANGED <<tags, receipts, now, issued, creator, walk, bucket, shown, created>>

\* (request as RequestWithTag).tag read by a handler that shares one
\* module-level tag with the other requests in flight
RequestTagShared(s) ==
  IF \E o \in Slots : o # s /\ "tag" \in DOMAIN req[o] /\ req[o].tag # NoTag
  THEN req[CHOOSE o \in Slots : o # s /\ "tag" \in DOMAIN req[o] /\ req[o].tag # NoTag].tag
  ELSE req[s].tag

\* const reqTag = (request as RequestWithTag).tag: the tag the hook attached
\* to this request object
RequestTag(s) == req[s].tag

\* prisma.tag.update that has no where clause
UpdateEveryRow(rows, id, walletAddress) ==
  [i \in 1..Len(rows) |-> [rows[i] EXCEPT !.walletAddress = walletAddress]]

\* prisma.tag.update({ where: { id }, data: { walletAddress } })
TagUpdate(rows, id, walletAddress) ==
  [rows EXCEPT ![id].walletAddress = walletAddress]

\* PATCH /me: safeParse, then await prisma.tag.update({ where: { id: tag.id } })
UpdateWallet(s) ==
  /\ Quiet
  /\ req[s].op = "updateWallet" /\ req[s].pc = "handler"
  /\ IF ~updateWalletBodyOk(req[s].body)
     THEN /\ req' = [req EXCEPT ![s] = [req[s] EXCEPT !.pc = "done"] @@ [resp |-> ValidationFailed]]
          /\ UNCHANGED tags
     ELSE /\ tags' = TagUpdate(tags, RequestTag(s).id, req[s].body.walletAddress)
          /\ req' = [req EXCEPT ![s] = [req[s] EXCEPT !.pc = "done"]
                       @@ [resp |-> [code |-> 200,
                                     username |-> tags'[RequestTag(s).id].username,
                                     walletAddress |-> tags'[RequestTag(s).id].walletAddress]]]
  /\ UNCHANGED <<receipts, now, issued, creator, walk, bucket, shown, created>>

\* String.prototype.toLowerCase on the characters a username is made of
UpperChars == <<"A", "B", "C", "D", "E", "F", "G", "H", "I", "J", "K", "L", "M",
                "N", "O", "P", "Q", "R", "S", "T", "U", "V", "W", "X", "Y", "Z">>
LowerOfUpper == <<"a", "b", "c", "d", "e", "f", "g", "h", "i", "j", "k", "l", "m",
                  "n", "o", "p", "q", "r", "s", "t", "u", "v", "w", "x", "y", "z">>
toLowerCase(u) ==
  [i \in 1..Len(u) |->
     IF \E k \in 1..Len(UpperChars) : UpperChars[k] = u[i]
     THEN LowerOfUpper[CHOOSE k \in 1..Len(UpperChars) : UpperChars[k] = u[i]]
     ELSE u[i]]

InvalidUsername == [code |-> 400, message |-> "Invalid username"]
TagNotFound == [code |-> 404, message |-> "Tag not found"]

\* findUnique({ where: { username }, select: { username: true, walletAddress: true } })
TagSelect(row) ==
  IF row = NoTagRow THEN NoTagRow
  ELSE [username |-> row.username, walletAddress |-> row.walletAddress]

\* GET /:username: toLowerCase, the username rules, findUnique, then reply
LookupTag(s, param) ==
  /\ Quiet
  /\ FreeSlot(s)
  /\ LET username == toLowerCase(param)
         tag == TagSelect(TagByUsername(tags, username))
         r == [op |-> "lookup", pc |-> "done", body |-> [username |-> param]]
         reply == IF ~ValidUsername(username) THEN InvalidUsername
                  ELSE IF tag = NoTagRow THEN TagNotFound
                  ELSE [code |-> 200, username |-> tag.username,
                        walletAddress |-> tag.walletAddress]
     IN req' = [req EXCEPT ![s] = r @@ [resp |-> reply]]
  /\ UNCHANGED <<tags, receipts, now, issued, creator, walk, bucket, shown, created>>

(***************************************************************************)
(* routes/receipts.ts                                                      *)
(***************************************************************************)
\* an integer amount: hi * 2^53 + lo, with 0 <= lo < 2^53 when hi > 0
Lamports(hi, lo) == [hi |-> hi, lo |-> lo]

\* the IEEE double nearest to an integer (ties to even): every integer below
\* 2^53 is a double, from 2^53 to 2^54 every second one is
NearestDouble(n) ==
  IF n.hi = 0 \/ n.lo % 2 = 0 THEN n
  ELSE IF (n.lo + 1) % 4 = 0 THEN Lamports(n.hi, n.lo + 1)
  ELSE Lamports(n.hi, n.lo - 1)

\* JSON.parse of the number written in the request body
JSONparse(n) == NearestDouble(n)

\* request.body as the JSON content-type parser hands it to the handler
RequestBody(s) == [req[s].body EXCEPT !.amountLamports = JSONparse(@)]

\* createBody.safeParse
createBodyOk(body) ==
  /\ body.signature # ""
  /\ body.fromTag # <<>>
  /\ body.toTag # <<>>
  /\ body.amountLamports.hi > 0 \/ body.amountLamports.lo >= 0

\* PartyCheck that looks at the request's tag only
PartyCheckAnyTag(reqTag, fromUsername, toUsername) == reqTag # NoTag

\* reqTag.username !== fromUsername && reqTag.username !== toUsername is the 403
PartyCheck(reqTag, fromUsername, toUsername) ==
  reqTag.username = fromUsername \/ reqTag.username = toUsername

Forbidden == [code |-> 403, message |-> "Only fromTag or toTag API key can create this receipt"]
PartiesUnknown == [code |-> 400, message |-> "fromTag or toTag not found"]
NotFound == [code |-> 404, message |-> "Receipt not found"]

\* BigInt(amountLamports) of a double that holds an integer is exact
BigInt(n) == [bigint |-> n]

\* Number(r.amountLamports): the double nearest to the bigint
Number(b) == NearestDouble(b.bigint)

\* Date.prototype.toISOString
toISOString(t) == <<"iso", t>>

\* `${RECEIPT_BASE_URL.replace(/\/$/, "")}/${id}`
ReceiptUrl(id) == <<RECEIPT_BASE_URL, "/", id>>

\* toReceiptItem, on a row with its fromTag and toTag joined in
toReceiptItem(r, tagRows) ==
  [id |-> r.id,
   signature |-> r.signature,
   memo |-> r.memo,
   fromTag |-> TagById(tagRows, r.fromTagId).username,
   toTag |-> TagById(tagRows, r.toTagId).username,
   amountLamports |-> Number(r.amountLamports),
   createdAt |-> toISOString(r.createdAt),
   url |-> ReceiptUrl(r.id)]

Finish(r, resp) == [r EXCEPT !.pc = "done"] @@ [resp |-> resp]

\* POST /create: safeParse, the party check, then
\* await prisma.tag.findUnique({ where: { username: fromUsername } })
CreateCheck(s) ==
  /\ Quiet
  /\ req[s].op = "create" /\ req[s].pc = "handler"
  /\ IF ~createBodyOk(RequestBody(s))
     THEN req' = [req EXCEPT ![s] = Finish(req[s], ValidationFailed)]
     ELSE IF ~PartyCheck(RequestTag(s), req[s].body.fromTag, req[s].body.toTag)
          THEN req' = [req EXCEPT ![s] = Finish(req[s], Forbidden)]
          ELSE req' = [req EXCEPT ![s] = [req[s] EXCEPT !.pc = "findTo"]
                         @@ [fromRow |-> TagByUsername(tags, req[s].body.fromTag)]]
  /\ UNCHANGED <<tags, receipts, now, issued, creator, walk, bucket, shown, created>>

\* the party test that lets a request pass when one of the two is found
BothPartiesMissing(fromTag, toTag) == fromTag = NoTagRow /\ toTag = NoTagRow

\* the party test that looks at fromTag only
FromPartyMissing(fromTag, toTag) == fromTag = NoTagRow

\* !fromTag || !toTag
PartyMissing(fromTag, toTag) == fromTag = NoTagRow \/ toTag = NoTagRow

\* await prisma.tag.findUnique({ where: { username: toUsername } }), then
\* if (!fromTag || !toTag) reply 400
CreateFindTo(s) ==
  /\ Quiet
  /\ req[s].op = "create" /\ req[s].pc = "findTo"
  /\ LET toRow == TagByUsername(tags, req[s].body.toTag)
     IN IF PartyMissing(req[s].fromRow, toRow)
        THEN req' = [req EXCEPT ![s] = Finish(req[s], PartiesUnknown)]
        ELSE req' = [req EXCEPT ![s] = [req[s] EXCEPT !.pc = "insert"] @@ [toRow |-> toRow]]
  /\ UNCHANGED <<tags, receipts, now, issued, creator, walk, bucket, shown, created>>

\* a create that writes over the row of the same signature when there is one
ReceiptUpsertBySignature(rows, row) ==
  IF \E i \in 1..Len(rows) : rows[i].signature = row.signature
  THEN LET i == CHOOSE k \in 1..Len(rows) : rows[k].signature = row.signature
       IN [rows EXCEPT ![i] = [row EXCEPT !.id = i]]
  ELSE Append(rows, row)

\* prisma.receipt.create: a new row, no row touched
ReceiptCreate(rows, row) == Append(rows, row)

\* await prisma.receipt.create(...), then reply 201 with id and url
CreateInsert(s) ==
  /\ Quiet
  /\ req[s].op = "create" /\ req[s].pc = "insert"
  /\ LET row == [id |-> Len(receipts) + 1,
                 signature |-> req[s].body.signature,
                 memo |-> req[s].body.memo,
                 fromTagId |-> req[s].fromRow.id,
                 toTagId |-> req[s].toRow.id,
                 amountLamports |-> BigInt(RequestBody(s).amountLamports),
                 createdAt |-> now]
         reply == [code |-> 201, id |-> row.id, url |-> ReceiptUrl(row.id)]
     IN /\ receipts' = ReceiptCreate(receipts, row)
        /\ creator' = Append(creator, RequestTag(s).id)
        /\ created' = Append(created, [body |-> req[s].body, reply |-> reply])
        /\ req' = [req EXCEPT ![s] = Finish(req[s], reply)]
  /\ UNCHANGED <<tags, now, issued, walk, bucket, shown>>

\* a limit query parameter: absent, or a string that parseInt reads as n, or
\* a string parseInt cannot read
NoLimit == [given |-> FALSE, numeric |-> FALSE, n |-> 0]
LimitString(n) == [given |-> TRUE, numeric |-> TRUE, n |-> n]
LimitGarbage == [given |-> TRUE, numeric |-> FALSE, n |-> 0]

\* parseInt(str, 10): an integer or NaN
parseInt(str) == IF str.numeric THEN [nan |-> FALSE, n |-> str.n] ELSE [nan |-> TRUE, n |-> 0]

\* x || fallback: NaN and 0 are falsy
OrElse(x, fallback) == IF x.nan \/ x.n = 0 THEN fallback ELSE x.n

Min(a, b) == IF a <= b THEN a ELSE b
Max(a, b) == IF a >= b THEN a ELSE b

\* Math.min(MAX_LIMIT, Math.max(1, parseInt(limit ?? String(DEFAULT_LIMIT), 10) || DEFAULT_LIMIT))
EffectiveLimit(limit) ==
  Min(MAX_LIMIT,
      Max(1, OrElse(parseInt(IF limit.given THEN limit ELSE LimitString(DEFAULT_LIMIT)),
                    DEFAULT_LIMIT)))

Range(seq) == {seq[i] : i \in 1..Len(seq)}

\* where: { OR: [{ fromTagId: id }, { toTagId: id }] }
VisibleTo(rows, tagId) ==
  {i \in 1..Len(rows) : rows[i].fromTagId = tagId \/ rows[i].toTagId = tagId}

\* orderBy: { createdAt: "desc" } and nothing else: every arrangement of the
\* ids that is descending in createdAt is an answer the database may give,
\* rows of equal createdAt in any order
DescOrders(rows, ids) ==
  {o \in [1..Cardinality(ids) -> ids] :
     /\ \A i, j \in 1..Cardinality(ids) : i # j => o[i] # o[j]
     /\ \A i, j \in 1..Cardinality(ids) : i < j => rows[o[i]].createdAt >= rows[o[j]].createdAt}

\* a cursor looked up in the whole table: the rows of the query no newer
\* than the cursor's row, less the first
AfterCursorAnyRow(order, cursor) ==
  IF cursor = 0 THEN order
  ELSE IF cursor \notin 1..Len(receipts) THEN <<>>
  ELSE LET IsNoNewer(i) == receipts[i].createdAt <= receipts[cursor].createdAt
           kept == SelectSeq(order, IsNoNewer)
       IN IF kept = <<>> THEN <<>> ELSE Tail(kept)

\* cursor: { id: cursor }, skip: 1: the rows after the cursor's row; none
\* when the cursor's row is not among the rows of the query
AfterCursor(order, cursor) ==
  IF cursor = 0 THEN order
  ELSE IF cursor \notin Range(order) THEN <<>>
  ELSE LET p == CHOOSE i \in 1..Len(order) : order[i] = cursor
       IN SubSeq(order, p + 1, Len(order))

\* take: n
Take(seq, n) == SubSeq(seq, 1, Min(n, Len(seq)))

\* take: limit
FetchCountExact(limit) == limit

\* the rows findMany asks for: take: limit + 1
FetchCount(limit) == limit + 1

\* GET /: await prisma.receipt.findMany(...), then reply items and nextCursor
ListReceipts(s) ==
  /\ Quiet
  /\ req[s].op = "list" /\ req[s].pc = "handler"
  /\ \E order \in DescOrders(receipts, VisibleTo(receipts, RequestTag(s).id)) :
       LET limit == EffectiveLimit(req[s].body.limit)
           rest == AfterCursor(order, req[s].body.cursor)
           found == Take(rest, FetchCount(limit))
           hasMore == Len(found) > limit
           page == Take(found, limit)
           items == [i \in 1..Len(page) |-> toReceiptItem(receipts[page[i]], tags)]
           nextCursor == IF hasMore /\ Len(items) > 0 THEN items[Len(items)].id ELSE 0
           reply == IF nextCursor # 0
                    THEN [code |-> 200, items |-> items, nextCursor |-> nextCursor]
                    ELSE [code |-> 200, items |-> items]
       IN req' = [req EXCEPT ![s] =
                    Finish(req[s], reply) @@ [limit |-> limit, rest |-> rest]]
  /\ UNCHANGED <<tags, receipts, now, issued, creator, walk, bucket, shown, created>>

\* GetReply with the two 404 cases told apart
GetReplyForbidden(rows, tagRows, id, reqTag) ==
  IF id \notin 1..Len(rows) THEN NotFound
  ELSE IF rows[id].fromTagId # reqTag.id /\ rows[id].toTagId # reqTag.id
       THEN [code |-> 403, message |-> "Forbidden"]
  ELSE [code |-> 200, item |-> toReceiptItem(rows[id], tagRows)]

\* GET /:id: the reply for the row findUnique({ where: { id } }) gives: 404
\* when there is no row, 404 when the caller is neither party, else the item
GetReply(rows, tagRows, id, reqTag) ==
  IF id \notin 1..Len(rows) THEN NotFound
  ELSE IF rows[id].fromTagId # reqTag.id /\ rows[id].toTagId # reqTag.id THEN NotFound
  ELSE [code |-> 200, item |-> toReceiptItem(rows[id], tagRows)]

\* GET /:id: await prisma.receipt.findUnique(...), then reply
GetReceipt(s) ==
  /\ Quiet
  /\ req[s].op = "get" /\ req[s].pc = "handler"
  /\ req' = [req EXCEPT ![s] =
               Finish(req[s], GetReply(receipts, tags, req[s].body.id, RequestTag(s)))]
  /\ UNCHANGED <<tags, receipts, now, issued, creator, walk, bucket, shown, created>>

(***************************************************************************)
(* routes/objects.ts, lib/storage.ts                                       *)
(***************************************************************************)
MAX_BODY_SIZE == 2 * 1024 * 1024

\* request.params["*"]: a string, as the sequence of its pieces; a piece is a
\* slash, an escaped slash, a lone percent sign or a run of other characters
Slash == "/"
EscapedSlash == "%2F"
LonePercent == "%"

\* decodeURIComponent raises URIError on a percent sign that starts no escape
DecodeRaises(rawKey) == \E i \in 1..Len(rawKey) : rawKey[i] = LonePercent

decodeURIComponent(rawKey) ==
  [i \in 1..Len(rawKey) |-> IF rawKey[i] = EscapedSlash THEN Slash ELSE rawKey[i]]

\* .replace(/^\/+/, "")
RECURSIVE StripLeadingSlashes(_)
StripLeadingSlashes(key) ==
  IF key # <<>> /\ Head(key) = Slash THEN StripLeadingSlashes(Tail(key)) ELSE key

\* the pattern with .+ in the place of [^/]+
AllowedPrefixAnyMint(key) ==
  /\ Len(key) >= 5
  /\ key[1] = "tokens" /\ key[2] = Slash
  /\ key[Len(key) - 1] = Slash
  /\ key[Len(key)] \in {"logo.png", "metadata.json"}

\* ALLOWED_PREFIX.test(key): ^tokens\/[^/]+\/(logo\.png|metadata\.json)$
ALLOWED_PREFIX(key) ==
  /\ Len(key) >= 5
  /\ key[1] = "tokens" /\ key[2] = Slash
  /\ \A i \in 3..(Len(key) - 2) : key[i] # Slash
  /\ key[Len(key) - 1] = Slash
  /\ key[Len(key)] \in {"logo.png", "metadata.json"}

\* request.body as the content-type parsers leave it: nothing, a Buffer of
\* size bytes (the types registered with parseAs "buffer"), or a string
NoBody == [kind |-> "none", size |-> 0]
BufferBody(size) == [kind |-> "buffer", size |-> size]
TextBody(size) == [kind |-> "text", size |-> size]

InvalidKey ==
  [code |-> 400, message |-> "Invalid key. Allowed: tokens/<mint>/logo.png or tokens/<mint>/metadata.json"]
InvalidBody == [code |-> 400, message |-> "Missing or invalid body (expected binary)"]
PayloadTooLarge == [code |-> 413, message |-> "Payload too large (max 2MB)"]
EmptyBody == [code |-> 400, message |-> "Empty body not allowed"]
UploadFailed == [code |-> 502, message |-> "Upload failed"]
\* Fastify's reply when the body is longer than the route's bodyLimit
BodyLimitExceeded == [code |-> 413, message |-> "Request body is too large"]

\* getPublicUrl
getPublicUrl(key) == <<"https://cdn.moltr.app", "/">> \o key

\* PutObjectCommand: the object under Key is written or written over
uploadObject(objects, key, body) ==
  {o \in objects : o.Key # key} \cup {[Key |-> key, Body |-> body.size]}

\* PUT /objects/*: bodyLimit, then the handler to its reply; the upload may
\* fail, with or without the object written
PutObject(s, rawKey, body, uploaded, replied) ==
  /\ Quiet
  /\ FreeSlot(s)
  /\ LET key == StripLeadingSlashes(decodeURIComponent(rawKey))
         r == [op |-> "putObject", pc |-> "done", body |-> [rawKey |-> rawKey, body |-> body]]
         refusal ==
           IF body.size > MAX_BODY_SIZE THEN BodyLimitExceeded
           ELSE IF DecodeRaises(rawKey) THEN InternalError
           ELSE IF ~ALLOWED_PREFIX(key) THEN InvalidKey
           ELSE IF body.kind # "buffer" THEN InvalidBody
           ELSE IF body.size > MAX_BODY_SIZE THEN PayloadTooLarge
           ELSE IF body.size = 0 THEN EmptyBody
           ELSE [code |-> 0]
     IN IF refusal.code # 0
        THEN /\ req' = [req EXCEPT ![s] = r @@ [resp |-> refusal]]
             /\ UNCHANGED bucket
        ELSE /\ bucket' = IF uploaded THEN uploadObject(bucket, key, body) ELSE bucket
             /\ req' = [req EXCEPT ![s] = r @@
                          [resp |-> IF uploaded /\ replied
                                    THEN [code |-> 200, ok |-> TRUE, publicUrl |-> getPublicUrl(key)]
                                    ELSE UploadFailed]]
  /\ UNCHANGED <<tags, receipts, now, issued, creator, walk, shown, created>>

(***************************************************************************)
(* GET /health, lib/health.ts                                              *)
(***************************************************************************)
\* checkDb and checkS3 catch every error and give a boolean; s3Configured is
\* whether S3_ACCESS_KEY_ID is set
Health(s, dbOk, s3Configured, s3Ok) ==
  /\ Quiet
  /\ FreeSlot(s)
  /\ LET s3Status == IF ~s3Configured THEN "skipped" ELSE IF s3Ok THEN "ok" ELSE "error"
         r == [op |-> "health", pc |-> "done", body |-> [dbOk |-> dbOk]]
         reply == IF ~dbOk THEN [code |-> 503, ok |-> FALSE, db |-> "error", s3 |-> s3Status]
                  ELSE IF s3Configured /\ ~s3Ok
                       THEN [code |-> 503, ok |-> FALSE, db |-> "ok", s3 |-> "error"]
                  ELSE [code |-> 200, ok |-> TRUE, db |-> "ok", s3 |-> s3Status]
     IN req' = [req EXCEPT ![s] = r @@ [resp |-> reply]]
  /\ UNCHANGED <<tags, receipts, now, issued, creator, walk, bucket, shown, created>>

(***************************************************************************)
(* The reply leaves in the turn of the event loop that produced it; the    *)
(* request object is dropped.                                              *)
(***************************************************************************)
IsWalkerRequest(s) == req[s].op = "list" /\ req[s].walker

Deliver(s) ==
  /\ req[s].pc = "done"
  /\ ~IsWalkerRequest(s)
  /\ req' = [req EXCEPT ![s] = Idle]
  /\ shown' = IF "apiKey" \in DOMAIN req[s].resp THEN Append(shown, req[s].resp.apiKey) ELSE shown
  /\ UNCHANGED <<tags, receipts, now, issued, creator, walk, bucket, created>>

Tick ==
  /\ Quiet
  /\ now < MaxTime
  /\ now' = now + 1
  /\ UNCHANGED <<tags, receipts, req, issued, creator, walk, bucket, shown, created>>

(***************************************************************************)
(* A client that pages through its receipts: it lists without a cursor,    *)
(* then with each reply's nextCursor, until a reply carries none.          *)
(***************************************************************************)
NoWalk == [phase |-> "none"]

WalkFirstPage(s, key, limit) ==
  /\ walk.phase = "none"
  /\ Hook(s, "list", key, [limit |-> limit, cursor |-> 0], TRUE)
  /\ walk' = [phase |-> "wait", key |-> key, limit |-> limit, cursor |-> 0,
              ids |-> <<>>, pages |-> <<>>, base |-> Len(receipts), who |-> resolveTagFromApiKey(key, tags).id]
  /\ UNCHANGED <<tags, receipts, now, issued, creator, bucket, shown, created>>

WalkReceive(s) ==
  /\ req[s].pc = "done" /\ IsWalkerRequest(s)
  /\ walk.phase = "wait"
  /\ LET got == IF req[s].resp.code = 200
                THEN [i \in 1..Len(req[s].resp.items) |-> req[s].resp.items[i].id]
                ELSE <<>>
         more == req[s].resp.code = 200 /\ "nextCursor" \in DOMAIN req[s].resp
     IN walk' = [walk EXCEPT !.phase = IF more THEN "next" ELSE "done",
                             !.cursor = IF more THEN req[s].resp.nextCursor ELSE 0,
                             !.ids = walk.ids \o got,
                             !.pages = Append(walk.pages, Len(got))]
  /\ req' = [req EXCEPT ![s] = Idle]
  /\ UNCHANGED <<tags, receipts, now, issued, creator, bucket, shown, created>>

\* the database may order rows of equal createdAt anew for every query, so a
\* walk need not end; the client is followed until it holds more ids than
\* there are receipts
WalkNextPage(s) ==
  /\ walk.phase = "next"
  /\ Len(walk.ids) <= Len(receipts)
  /\ Hook(s, "list", walk.key, [limit |-> walk.limit, cursor |-> walk.cursor], TRUE)
  /\ walk' = [walk EXCEPT !.phase = "wait"]
  /\ UNCHANGED <<tags, receipts, now, issued, creator, bucket, shown, created>>

(***************************************************************************)
(* Stores and inputs                                                       *)
(***************************************************************************)
\* the issued key and the row of the i-th tag when the usernames of names
\* are registered one after the other, each by a request of slot 1
SeedEntropy(i) == (i - 1) * Cardinality(Slots) + 1
SeedKey(i) == generateApiKey(SeedEntropy(i))
SeedTags(names) ==
  [i \in 1..Len(names) |->
     [id |-> i, username |-> names[i], walletAddress |-> "w1",
      apiKeyHash |-> hashApiKey(SeedKey(i), SeedEntropy(i))]]
SeedIssued(names) == [i \in 1..Len(names) |-> SeedKey(i)]

\* header values a client may present: none, the empty string, a string
\* below the floor, a long string that is no issued key
BadKeys ==
  {NoHeader, KeyString(0, 0), KeyString(MinKeyLength - 1, 0), KeyString(GeneratedKeyLength, 0)}
IssuedKeys == {issued[i] : i \in 1..Len(issued)}

CreatesInFlight == Cardinality({s \in Slots : req[s].op = "create" /\ req[s].pc # "done"})
\* a create request is let in while the store stays within max receipts
MayCreate(max) == Len(receipts) + CreatesInFlight < max

(***************************************************************************)
(* Spec: the registry from the empty store, requests interleaved           *)
(***************************************************************************)
RegistryNames == {Ann, Bob, TooShort, UpperBob}

Init ==
  /\ tags = <<>>
  /\ receipts = <<>>
  /\ now = 0
  /\ req = [s \in Slots |-> Idle]
  /\ issued = <<>>
  /\ creator = <<>>
  /\ walk = NoWalk
  /\ bucket = {}
  /\ shown = <<>>
  /\ created = <<>>

Next ==
  \E s \in Slots :
    \/ \E u \in RegistryNames, w \in {"w1", ""} : RegisterFind(s, u, w)
    \/ RegisterHash(s)
    \/ RegisterCreate(s)
    \/ \E k \in BadKeys \cup IssuedKeys, w \in {"w2", ""} :
         RequireApiKey(s, "updateWallet", k, [walletAddress |-> w])
    \/ UpdateWallet(s)
    \/ Deliver(s)

Spec == Init /\ [][Next]_vars

(***************************************************************************)
(* SpecReceipts: the protected routes over a store that holds three tags,  *)
(* requests interleaved                                                    *)
(***************************************************************************)
SeedNames == <<Ann, Bob, Cat>>
AnnKey == SeedKey(1)
BobKey == SeedKey(2)
CatKey == SeedKey(3)

CreateBody(fromTag, toTag, signature, memo, amountLamports) ==
  [signature |-> signature, memo |-> memo, fromTag |-> fromTag, toTag |-> toTag,
   amountLamports |-> amountLamports]

\* well-formed bodies: Ann to Bob, Bob to himself, and one party unregistered
GoodBodies ==
  {CreateBody(Ann, Bob, "sig", "memo", Lamports(0, 7)), CreateBody(Bob, Bob, "sig2", "", Lamports(0, 0))}
UnknownPartyBodies ==
  {CreateBody(Ann, Zed, "sig", "memo", Lamports(0, 7)), CreateBody(Zed, Bob, "sig", "memo", Lamports(0, 7))}
\* one body for each rule of createBody that can fail
BadBodies ==
  {CreateBody(Ann, Bob, "", "memo", Lamports(0, 7)), CreateBody(Ann, Bob, "sig", "", Lamports(0, 0 - 1)),
   CreateBody(<<>>, Bob, "sig", "", Lamports(0, 0)), CreateBody(Ann, <<>>, "sig", "", Lamports(0, 0))}

InitReceipts ==
  /\ tags = SeedTags(SeedNames)
  /\ receipts = <<>>
  /\ now = 0
  /\ req = [s \in Slots |-> Idle]
  /\ issued = SeedIssued(SeedNames)
  /\ creator = <<>>
  /\ walk = NoWalk
  /\ bucket = {}
  /\ shown = SeedIssued(SeedNames)
  /\ created = <<>>

NextReceipts ==
  \/ Tick
  \/ \E s \in Slots :
       \/ \E k \in BadKeys \cup IssuedKeys :
            \/ \E b \in GoodBodies \cup UnknownPartyBodies \cup BadBodies :
                 MayCreate(MaxReceipts) /\ RequireApiKey(s, "create", k, b)
            \/ RequireApiKey(s, "list", k, [limit |-> NoLimit, cursor |-> 0])
            \/ \E id \in 1..(MaxReceipts + 1) : RequireApiKey(s, "get", k, [id |-> id])
       \/ \E k \in BadKeys \cup {CatKey} :
            RequireApiKey(s, "updateWallet", k, [walletAddress |-> "w2"])
       \/ CreateCheck(s)
       \/ CreateFindTo(s)
       \/ CreateInsert(s)
       \/ ListReceipts(s)
       \/ GetReceipt(s)
       \/ UpdateWallet(s)
       \/ Deliver(s)

SpecReceipts == InitReceipts /\ [][NextReceipts]_vars

(***************************************************************************)
(* SpecPaging: one client at a time over the same three tags: receipts are *)
(* created, listed with every kind of limit and cursor, and paged through  *)
(***************************************************************************)
Limits ==
  {NoLimit, LimitGarbage, LimitString(0 - 1), LimitString(0), LimitString(1), LimitString(2),
   LimitString(MAX_LIMIT), LimitString(MAX_LIMIT + 1)}

\* receipts are created and listed with every kind of limit and cursor; then
\* the client pages through the store as it stands, and the behaviour ends
NextPaging ==
  \/ walk.phase = "none" /\ Tick
  \/ \E k \in {AnnKey, BobKey}, b \in GoodBodies :
       walk.phase = "none" /\ MayCreate(MaxPaged) /\ RequireApiKey(1, "create", k, b)
  \/ \E k \in IssuedKeys, l \in Limits, c \in 0..(MaxPaged + 1) :
       walk.phase = "none" /\ RequireApiKey(1, "list", k, [limit |-> l, cursor |-> c])
  \/ \E k \in {AnnKey, BobKey}, n \in {1, 2} : WalkFirstPage(1, k, LimitString(n))
  \/ WalkNextPage(1)
  \/ WalkReceive(1)
  \/ CreateCheck(1)
  \/ CreateFindTo(1)
  \/ CreateInsert(1)
  \/ ListReceipts(1)
  \/ Deliver(1)

SpecPaging == InitReceipts /\ [][NextPaging]_vars

(***************************************************************************)
(* SpecAll: every operation of the API, one request at a time, over the    *)
(* same three tags                                                         *)
(***************************************************************************)
\* 2^53 + 1 and 2^53 + 2 lamports; the first repeats the signature of a body of GoodBodies
BigBodies ==
  {CreateBody(Ann, Bob, "sig", "memo", Lamports(1, 1)), CreateBody(Bob, Ann, "sig4", "m", Lamports(1, 2))}

ObjectKeys ==
  { <<"tokens", Slash, "ABC", Slash, "logo.png">>,
    <<Slash, Slash, "tokens", Slash, "ABC", Slash, "metadata.json">>,
    <<"tokens", EscapedSlash, "ABC", EscapedSlash, "logo.png">>,
    <<"tokens", Slash, "ABC", Slash, "..", Slash, "..", Slash, "etc">>,
    <<"tokens", Slash, "ABC", EscapedSlash, "x", Slash, "logo.png">>,
    <<"tokens", Slash, Slash, "logo.png">>,
    <<"tokens", Slash, "ABC", Slash, "logo.png", Slash>>,
    <<"x", Slash, "tokens", Slash, "ABC", Slash, "logo.png">>,
    <<"tokens", Slash, "ABC", Slash, "logo.png", LonePercent>>,
    <<>> }

ObjectBodies ==
  {NoBody, TextBody(1), BufferBody(0), BufferBody(1), BufferBody(MAX_BODY_SIZE),
   BufferBody(MAX_BODY_SIZE + 1)}

\* an upload is let in while the bucket stays within max objects
MayUpload(max) == Cardinality(bucket) < max \/ max = 0

NextAll ==
  \/ \E u \in {Zed, Bob, TooShort} : RegisterFind(1, u, "w1")
  \/ RegisterHash(1)
  \/ RegisterCreate(1)
  \/ \E u \in {Ann, UpperBob, Zed, TooShort} : LookupTag(1, u)
  \/ \E k \in {NoHeader, CatKey} : RequireApiKey(1, "updateWallet", k, [walletAddress |-> "w2"])
  \/ UpdateWallet(1)
  \/ \E k \in {NoHeader, AnnKey, BobKey, CatKey} :
       \/ \E b \in GoodBodies \cup BigBodies \cup UnknownPartyBodies :
            MayCreate(MaxReceipts) /\ RequireApiKey(1, "create", k, b)
       \/ RequireApiKey(1, "list", k, [limit |-> NoLimit, cursor |-> 0])
       \/ \E id \in 1..(MaxReceipts + 1) : RequireApiKey(1, "get", k, [id |-> id])
  \/ CreateCheck(1)
  \/ CreateFindTo(1)
  \/ CreateInsert(1)
  \/ ListReceipts(1)
  \/ GetReceipt(1)
  \/ \E k \in ObjectKeys, b \in ObjectBodies, uploaded \in BOOLEAN, replied \in BOOLEAN :
       MayUpload(MaxObjects) /\ (replied => uploaded) /\ PutObject(1, k, b, uploaded, replied)
  \/ \E dbOk, s3Configured, s3Ok \in BOOLEAN : Health(1, dbOk, s3Configured, s3Ok)
  \/ Deliver(1)

SpecAll == InitReceipts /\ [][NextAll]_vars

(***************************************************************************)
(* SpecCorrupt: the protected routes, one request at a time, over a Tag    *)
(* table in which two stored hashes have been damaged                      *)
(***************************************************************************)
CorruptNames == <<Ann, Cat, Zed, Bob>>

\* Cat's hash is an encoded hash of no key, Zed's cannot be decoded
CorruptTags ==
  [SeedTags(CorruptNames) EXCEPT ![2].apiKeyHash = ForeignHash, ![3].apiKeyHash = UnparsableHash]

InitCorrupt ==
  /\ tags = CorruptTags
  /\ receipts = <<>>
  /\ now = 0
  /\ req = [s \in Slots |-> Idle]
  /\ issued = SeedIssued(CorruptNames)
  /\ creator = <<>>
  /\ walk = NoWalk
  /\ bucket = {}
  /\ shown = SeedIssued(CorruptNames)
  /\ created = <<>>

NextCorrupt ==
  \/ Tick
  \/ \E k \in BadKeys \cup IssuedKeys :
       \/ \E w \in {"w2", "w3"} : RequireApiKey(1, "updateWallet", k, [walletAddress |-> w])
       \/ \E b \in GoodBodies : MayCreate(MaxReceipts) /\ RequireApiKey(1, "create", k, b)
       \/ RequireApiKey(1, "list", k, [limit |-> NoLimit, cursor |-> 0])
       \/ \E id \in 1..(MaxReceipts + 1) : RequireApiKey(1, "get", k, [id |-> id])
  \/ UpdateWallet(1)
  \/ CreateCheck(1)
  \/ CreateFindTo(1)
  \/ CreateInsert(1)
  \/ ListReceipts(1)
  \/ GetReceipt(1)
  \/ Deliver(1)

SpecCorrupt == InitCorrupt /\ [][NextCorrupt]_vars

(***************************************************************************)
(* SpecInterleaved: a client pages through its receipts while receipts are *)
(* created between its page requests                                       *)
(***************************************************************************)
BetweenPages == walk.phase \in {"none", "next"}

NextInterleaved ==
  \/ BetweenPages /\ Tick
  \/ \E k \in {AnnKey, BobKey}, b \in GoodBodies :
       BetweenPages /\ MayCreate(MaxPaged) /\ RequireApiKey(1, "create", k, b)
  \/ \E k \in {AnnKey, BobKey}, n \in {1, 2} : WalkFirstPage(1, k, LimitString(n))
  \/ WalkNextPage(1)
  \/ WalkReceive(1)
  \/ CreateCheck(1)
  \/ CreateFindTo(1)
  \/ CreateInsert(1)
  \/ ListReceipts(1)
  \/ Deliver(1)

SpecInterleaved == InitReceipts /\ [][NextInterleaved]_vars

(***************************************************************************)
(* SpecIntegrity: receipts are created while a tag is registered and a     *)
(* wallet address is updated, requests interleaved                         *)
(***************************************************************************)
\* bodies that name Zed, who is registered during the behaviour or not at all
NewcomerBodies ==
  {CreateBody(Ann, Zed, "sig", "memo", Lamports(0, 7)), CreateBody(Zed, Bob, "sig3", "", Lamports(0, 1))}

NextIntegrity ==
  \E s \in Slots :
    \/ RegisterFind(s, Zed, "w1")
    \/ RegisterHash(s)
    \/ RegisterCreate(s)
    \/ \E k \in {AnnKey, BobKey}, b \in GoodBodies \cup NewcomerBodies :
         MayCreate(MaxReceipts) /\ RequireApiKey(s, "create", k, b)
    \/ RequireApiKey(s, "updateWallet", BobKey, [walletAddress |-> "w2"])
    \/ CreateCheck(s)
    \/ CreateFindTo(s)
    \/ CreateInsert(s)
    \/ UpdateWallet(s)
    \/ Deliver(s)

SpecIntegrity == InitReceipts /\ [][NextIntegrity]_vars

(***************************************************************************)
(* Properties                                                              *)
(***************************************************************************)
Done(s, op) == req[s].op = op /\ req[s].pc = "done"

IsPartyOf(tagId, id) ==
  /\ id \in 1..Len(receipts)
  /\ receipts[id].fromTagId = tagId \/ receipts[id].toTagId = tagId

\* C1: a get-by-id by an identity that is not a party of the receipt is
\* answered exactly as a get of an id that is not in the store, 404 "Receipt
\* not found"; the record is returned only to fromTag and toTag.
GetHidesExistence ==
  \A s \in Slots :
    (Done(s, "get") /\ req[s].tag # NoTag) =>
      /\ ~IsPartyOf(req[s].tag.id, req[s].body.id) =>
            req[s].resp = [code |-> 404, message |-> "Receipt not found"]
      /\ IsPartyOf(req[s].tag.id, req[s].body.id) =>
            /\ req[s].resp.code = 200
            /\ req[s].resp.item.id = req[s].body.id

\* a third identity has asked for a stored receipt of two others
GetByNonParty ==
  \E s \in Slots :
    /\ Done(s, "get") /\ req[s].tag # NoTag
    /\ req[s].body.id \in 1..Len(receipts)
    /\ ~IsPartyOf(req[s].tag.id, req[s].body.id)
    /\ receipts[req[s].body.id].fromTagId # receipts[req[s].body.id].toTagId

RegistrationRace ==
  \A s \in Slots :
    (Done(s, "register") /\ registerBodyOk(req[s].body)) =>
      \/ req[s].resp.code = 201
      \/ req[s].resp = [code |-> 409, message |-> "Username already registered"]

\* C5: no two stored tags have the same username.
UsernameUnique ==
  \A i, j \in 1..Len(tags) : i # j => tags[i].username # tags[j].username

\* two requests passed the existence check for one username, and the insert
\* of the second was rejected by the store
DuplicateInsertRejected ==
  \E s \in Slots :
    /\ Done(s, "register")
    /\ req[s].resp.code = 500
    /\ \E i \in 1..Len(tags) : tags[i].username = req[s].body.username

\* C6: the secret issued to a stored identity resolves to that identity and
\* to no other; every other value (absent, empty, shorter than 16, a long
\* string never issued, a key generated but not stored) resolves to none, and
\* a value shorter than 16 does so without a read of the store; the tag a
\* request carries is the one its own secret resolves to.
ResolutionCorrect ==
  /\ \A i \in 1..Len(tags) :
       resolveTagFromApiKey(issued[i], tags) = [id |-> tags[i].id, username |-> tags[i].username]
  /\ \A k \in BadKeys :
       /\ resolveTagFromApiKey(k, tags) = NoTag
       /\ (~k.present \/ k.len < 16) => ~ResolveReadsStore(k)
  /\ \A s \in Slots :
       /\ (req[s].op = "register" /\ req[s].pc = "create") =>
            resolveTagFromApiKey(req[s].apiKey, tags) = NoTag
       /\ req[s].op = "updateWallet" =>
            /\ \A i \in 1..Len(tags) :
                 req[s].key = issued[i] =>
                   req[s].tag = [id |-> i, username |-> tags[i].username]
            /\ req[s].key \notin IssuedKeys => req[s].tag = NoTag
            /\ (~req[s].key.present \/ req[s].key.len < 16) => ~req[s].readStore

\* the second of two stored identities presented its secret and was resolved
SecondIdentityResolved ==
  \E s \in Slots :
    /\ req[s].op = "updateWallet"
    /\ Len(tags) = 2
    /\ req[s].key = issued[2]
    /\ req[s].tag.id = 2

(***************************************************************************)
(* Paging                                                                  *)
(***************************************************************************)
NoDuplicates(seq) == \A i, j \in 1..Len(seq) : i # j => seq[i] # seq[j]

\* C2: the pages of a listing, followed to the last, hold a receipt if and
\* only if the caller is its fromParty or toParty.
ListVisibility ==
  walk.phase = "done" =>
    \A id \in 1..Len(receipts) :
      id \in Range(walk.ids) <=> IsPartyOf(walk.who, id)

\* C8: following nextCursor from the first page to the last yields every
\* visible receipt once, newest first, in pages of the limit (the last may be
\* shorter), also when receipts share a createdAt.
PaginationComplete ==
  walk.phase = "done" =>
    /\ NoDuplicates(walk.ids)
    /\ Range(walk.ids) = VisibleTo(receipts, walk.who)
    /\ \A i, j \in 1..Len(walk.ids) :
         i < j => receipts[walk.ids[i]].createdAt >= receipts[walk.ids[j]].createdAt
    /\ \A p \in 1..Len(walk.pages) :
         IF p < Len(walk.pages) THEN walk.pages[p] = walk.limit.n
         ELSE walk.pages[p] <= walk.limit.n

\* C9: a list reply carries nextCursor exactly when the caller has visible
\* receipts after the last returned item in the order of the query, and
\* nextCursor is then the id of the last item of the page.
NextCursorRule ==
  \A s \in Slots :
    (Done(s, "list") /\ req[s].resp.code = 200) =>
      LET items == req[s].resp.items
          n == Len(items)
      IN /\ n <= Len(req[s].rest)
         /\ \A i \in 1..n : items[i].id = req[s].rest[i]
         /\ Range(req[s].rest) \subseteq VisibleTo(receipts, req[s].tag.id)
         /\ ("nextCursor" \in DOMAIN req[s].resp) <=> Len(req[s].rest) > n
         /\ ("nextCursor" \in DOMAIN req[s].resp) =>
              n > 0 /\ req[s].resp.nextCursor = items[n].id
         /\ Len(req[s].rest) <= req[s].limit => "nextCursor" \notin DOMAIN req[s].resp

\* a page ended before the caller's receipts did
PageWithMore ==
  \E s \in Slots :
    /\ Done(s, "list") /\ req[s].resp.code = 200
    /\ "nextCursor" \in DOMAIN req[s].resp
    /\ req[s].body.cursor # 0
    /\ Len(req[s].rest) = Len(req[s].resp.items) + 1

\* the page size the claim gives for a limit parameter
ClaimedLimit(limit) ==
  IF ~limit.given THEN 20
  ELSE IF limit.n > 100 THEN 100
  ELSE IF limit.n < 1 THEN 1
  ELSE limit.n

\* C10: the page size is 20 without a limit and min(100, max(1, n)) for an
\* integer limit n, and no page holds more items than that.
LimitClamped ==
  \A s \in Slots :
    (Done(s, "list") /\ req[s].resp.code = 200
       /\ (req[s].body.limit.given => req[s].body.limit.numeric)) =>
      /\ req[s].limit = ClaimedLimit(req[s].body.limit)
      /\ Len(req[s].resp.items) <= ClaimedLimit(req[s].body.limit)

(***************************************************************************)
(* Properties of the whole API                                             *)
(***************************************************************************)
\* C11: a stored receipt never changes and is never removed: every step
\* leaves each row of the Receipt table as it was, the usernames of its two
\* parties included, and the table only grows.
ReceiptsImmutable ==
  [][/\ Len(receipts') >= Len(receipts)
     /\ \A i \in 1..Len(receipts) :
          /\ receipts'[i] = receipts[i]
          /\ TagById(tags', receipts[i].fromTagId).username = TagById(tags, receipts[i].fromTagId).username
          /\ TagById(tags', receipts[i].toTagId).username = TagById(tags, receipts[i].toTagId).username]_vars

\* a second receipt with the signature of the first is stored, a tag has been
\* registered, a wallet updated and an object uploaded
StoreGrewAroundReceipt ==
  /\ Len(receipts) = 2
  /\ receipts[1].signature = receipts[2].signature
  /\ Len(tags) > Len(SeedNames)
  /\ tags[3].walletAddress = "w2"
  /\ bucket # {}

\* C12: an update of the wallet address changes the walletAddress of the
\* caller's own tag and nothing else: in every step the id, username and
\* credential hash of every tag stay, and a walletAddress changes only in the
\* PATCH /me handler step of a request that carries that tag's own secret,
\* to the value of its body, with every other tag and every receipt untouched.
UpdateWalletFrame ==
  [][\A i \in 1..Len(tags) :
       /\ tags'[i].id = tags[i].id
       /\ tags'[i].username = tags[i].username
       /\ tags'[i].apiKeyHash = tags[i].apiKeyHash
       /\ tags'[i].walletAddress # tags[i].walletAddress =>
            /\ \E s \in Slots :
                 /\ req[s].op = "updateWallet" /\ req[s].pc = "handler" /\ req'[s].pc = "done"
                 /\ req[s].key = issued[i]
                 /\ tags'[i].walletAddress = req[s].body.walletAddress
                 /\ req'[s].resp = [code |-> 200, username |-> tags[i].username,
                                    walletAddress |-> req[s].body.walletAddress]
            /\ \A j \in 1..Len(tags) : j # i => tags'[j] = tags[j]
            /\ receipts' = receipts]_vars

\* the third identity has changed its wallet address while receipts of the
\* two others are stored
WalletUpdatedBesideReceipts ==
  /\ tags[3].walletAddress = "w2"
  /\ tags[1].walletAddress = "w1"
  /\ Len(receipts) > 0

\* the names a reply body is made of, and those of an item of a receipt
ReplyFields ==
  {"code", "message", "username", "walletAddress", "apiKey", "id", "url", "items",
   "nextCursor", "item", "ok", "publicUrl", "db", "s3"}
ItemFields ==
  {"id", "signature", "memo", "fromTag", "toTag", "amountLamports", "createdAt", "url"}

\* C13: no reply of any operation, whatever its outcome, holds a credential
\* hash: a reply is made of the fields of ReplyFields only, the apiKey of a
\* 201 is a plaintext key and no hash, the items of a list and the item of a
\* get are made of ItemFields only; and the tag the resolver attaches to a
\* request holds id and username only.
HashNeverReturned ==
  \A s \in Slots :
    /\ "resp" \in DOMAIN req[s] =>
         /\ DOMAIN req[s].resp \subseteq ReplyFields
         /\ "apiKey" \in DOMAIN req[s].resp =>
              /\ DOMAIN req[s].resp.apiKey = {"present", "len", "tok"}
              /\ \A i \in 1..Len(tags) : tags[i].apiKeyHash.digest # <<req[s].resp.apiKey>>
         /\ "items" \in DOMAIN req[s].resp =>
              \A i \in 1..Len(req[s].resp.items) : DOMAIN req[s].resp.items[i] = ItemFields
         /\ "item" \in DOMAIN req[s].resp => DOMAIN req[s].resp.item = ItemFields
    /\ "tag" \in DOMAIN req[s] => DOMAIN req[s].tag = {"id", "username"}

\* a lookup has found a tag, written in capitals in the request
LookupAnswered ==
  \E s \in Slots :
    /\ Done(s, "lookup")
    /\ req[s].body.username = UpperBob
    /\ req[s].resp.code = 200
    /\ req[s].resp.walletAddress = tags[2].walletAddress

\* the number of replies, sent or about to be sent, that hold the key
TimesShown(key) ==
  Cardinality({i \in 1..Len(shown) : shown[i] = key})
    + Cardinality({s \in Slots : /\ "resp" \in DOMAIN req[s]
                                 /\ "apiKey" \in DOMAIN req[s].resp
                                 /\ req[s].resp.apiKey = key})

\* generateApiKey that draws the same bytes every time


\* C14: the plaintext key of a stored tag is in exactly one reply, the 201 of
\* the registration that stored the tag; a reply that holds a key is the 201
\* of a register request and holds the key that request generated; a key that
\* was generated but whose tag was not stored is in no reply; and a row of
\* the Tag table holds the hash of the key, never the key.
OneTimeSecret ==
  /\ \A i \in 1..Len(issued) : TimesShown(issued[i]) = 1
  /\ \A i \in 1..Len(shown) : shown[i] \in IssuedKeys
  /\ \A s \in Slots :
       ("resp" \in DOMAIN req[s] /\ "apiKey" \in DOMAIN req[s].resp) =>
         /\ req[s].op = "register" /\ req[s].resp.code = 201
         /\ req[s].resp.apiKey = req[s].apiKey
         /\ req[s].resp.apiKey = issued[Len(issued)]
  /\ \A i \in 1..Len(tags) :
       /\ DOMAIN tags[i] = {"id", "username", "walletAddress", "apiKeyHash"}
       /\ DOMAIN tags[i].apiKeyHash = {"salt", "digest"}
       /\ verifyApiKey(issued[i], tags[i].apiKeyHash)

\* a tag was registered, its 201 has left, and the tag has since been looked up
SecretShownThenLookup ==
  /\ Len(tags) > Len(SeedNames)
  /\ shown[Len(shown)] = issued[Len(issued)]
  /\ \E s \in Slots :
       /\ Done(s, "lookup")
       /\ req[s].resp.code = 200
       /\ req[s].resp.username = tags[Len(tags)].username

\* a create request past validation and the party check that names a username
\* no stored tag has
NamesUnknownParty(s) ==
  /\ req[s].op = "create" /\ req[s].tag # NoTag
  /\ createBodyOk(req[s].body)
  /\ req[s].tag.username \in {req[s].body.fromTag, req[s].body.toTag}
  /\ \E u \in {req[s].body.fromTag, req[s].body.toTag} :
       \A i \in 1..Len(tags) : tags[i].username # u

\* C15: a create request that passes the party check but names a fromTag or
\* toTag that is no registered username is answered 400 "fromTag or toTag not
\* found", never reaches the insert, and the step that answers it leaves the
\* Receipt and Tag tables as they were; every stored receipt has two stored
\* parties.
UnknownPartiesRefused ==
  /\ [](/\ \A s \in Slots :
             NamesUnknownParty(s) =>
               /\ req[s].pc \in {"handler", "findTo", "done"}
               /\ req[s].pc = "done" =>
                    req[s].resp = [code |-> 400, message |-> "fromTag or toTag not found"]
        /\ \A i \in 1..Len(receipts) :
             /\ receipts[i].fromTagId \in 1..Len(tags)
             /\ receipts[i].toTagId \in 1..Len(tags))
  /\ [][\A s \in Slots :
          (NamesUnknownParty(s) /\ req[s].pc # "done" /\ req'[s].pc = "done") =>
            (receipts' = receipts /\ tags' = tags /\ created' = created)]_vars

\* a request of a party that names an unregistered counterparty was refused
\* with receipts in the store
UnknownPartyRefused ==
  \E s \in Slots :
    /\ NamesUnknownParty(s)
    /\ Done(s, "create")
    /\ req[s].resp.code = 400
    /\ req[s].resp.message = "fromTag or toTag not found"
    /\ Len(receipts) > 0

\* an item of a reply holds what the create request of its receipt supplied,
\* amount aside
ItemAsSupplied(item) ==
  /\ item.id \in 1..Len(created)
  /\ item.signature = created[item.id].body.signature
  /\ item.memo = created[item.id].body.memo
  /\ item.fromTag = created[item.id].body.fromTag
  /\ item.toTag = created[item.id].body.toTag
  /\ item.id = created[item.id].reply.id
  /\ item.url = created[item.id].reply.url

\* the items of the reply of a get or a list that is about to leave
ItemsReturned(s) ==
  IF Done(s, "get") /\ req[s].resp.code = 200 THEN {req[s].resp.item}
  ELSE IF Done(s, "list") /\ req[s].resp.code = 200 THEN Range(req[s].resp.items)
  ELSE {}

\* C16: a get or a list returns, for every receipt, the signature, memo,
\* fromTag, toTag and amount that its create request supplied, and the id and
\* url that its create reply gave; the amount is the integer that was written
\* in the request, for every amount a create accepted.
ReadBackRoundTrip ==
  \A s \in Slots :
    \A item \in ItemsReturned(s) :
      /\ ItemAsSupplied(item)
      /\ item.amountLamports = created[item.id].body.amountLamports

\* the path segments of a key: the runs of pieces between its slashes
RECURSIVE PathSegments(_)
PathSegments(key) ==
  IF \A i \in 1..Len(key) : key[i] # Slash THEN <<key>>
  ELSE LET i == CHOOSE k \in 1..Len(key) :
                  key[k] = Slash /\ \A j \in 1..(k - 1) : key[j] # Slash
       IN <<SubSeq(key, 1, i - 1)>> \o PathSegments(SubSeq(key, i + 1, Len(key)))

\* tokens/<id>/logo.png or tokens/<id>/metadata.json, <id> one non-empty segment
IsTokenObjectKey(key) ==
  LET segments == PathSegments(key)
  IN /\ Len(segments) = 3
     /\ segments[1] = <<"tokens">>
     /\ segments[2] # <<>>
     /\ segments[3] \in {<<"logo.png">>, <<"metadata.json">>}

\* the decoded key of a request, leading slashes stripped
DecodedKey(s) == StripLeadingSlashes(decodeURIComponent(req[s].body.rawKey))

\* the request may write: its key is a token object key and its body is
\* binary with 1 to 2MB bytes
MayWrite(s) ==
  /\ ~DecodeRaises(req[s].body.rawKey)
  /\ IsTokenObjectKey(DecodedKey(s))
  /\ req[s].body.body.kind = "buffer"
  /\ req[s].body.body.size \in 1..(2 * 1024 * 1024)

\* C17: an upload writes to the bucket only when the decoded key is
\* tokens/<id>/logo.png or tokens/<id>/metadata.json and the body is binary
\* with 1 to 2MB bytes, and then it writes that key; the key
\* tokens/ABC/../../etc is refused, an empty body is refused, a body of
\* 2MB + 1 bytes is refused with 413, and a refused request writes nothing.
ObjectUploadGate ==
  /\ [](/\ \A o \in bucket : IsTokenObjectKey(o.Key) /\ o.Body \in 1..(2 * 1024 * 1024)
        /\ \A s \in Slots :
             Done(s, "putObject") =>
               /\ req[s].resp.code \in {200, 400, 413, 500, 502}
               /\ req[s].resp.code \in {200, 502} <=> MayWrite(s)
               /\ req[s].resp.code = 200 =>
                    [Key |-> DecodedKey(s), Body |-> req[s].body.body.size] \in bucket
               /\ req[s].body.rawKey = <<"tokens", "/", "ABC", "/", "..", "/", "..", "/", "etc">> =>
                    req[s].resp.code \in {400, 413}
               /\ (req[s].body.body.size = 0 /\ ~DecodeRaises(req[s].body.rawKey)) =>
                    req[s].resp.code = 400
               /\ req[s].body.body.size = 2 * 1024 * 1024 + 1 => req[s].resp.code = 413)
  /\ [][bucket' # bucket =>
          \E s \in Slots :
            /\ req'[s].op = "putObject" /\ req'[s].pc = "done" /\ req[s].op = "idle"
            /\ req'[s].resp.code \in {200, 502}
            /\ bucket' \ bucket = {[Key |-> StripLeadingSlashes(decodeURIComponent(req'[s].body.rawKey)),
                                    Body |-> req'[s].body.body.size]}]_vars

\* an object of exactly 2MB was stored under a key sent with escaped slashes
LargestObjectStored ==
  \E s \in Slots :
    /\ Done(s, "putObject")
    /\ req[s].resp.code = 200
    /\ req[s].body.rawKey = <<"tokens", "%2F", "ABC", "%2F", "logo.png">>
    /\ req[s].body.body.size = 2 * 1024 * 1024
    /\ bucket = {[Key |-> <<"tokens", "/", "ABC", "/", "logo.png">>, Body |-> 2 * 1024 * 1024]}

\* the ids of the items of a list reply, in the order of the reply
PageIds(s) == [i \in 1..Len(req[s].resp.items) |-> req[s].resp.items[i].id]

\* ids is in descending createdAt order with equal createdAt ordered by id,
\* ascending when up and descending otherwise
OrderedWithTiebreak(ids, up) ==
  \A i, j \in 1..Len(ids) :
    i < j =>
      \/ receipts[ids[i]].createdAt > receipts[ids[j]].createdAt
      \/ /\ receipts[ids[i]].createdAt = receipts[ids[j]].createdAt
         /\ IF up THEN ids[i] < ids[j] ELSE ids[i] > ids[j]

\* C18: the items of a list reply are in descending createdAt order, and
\* items of equal createdAt are in the order of their ids (one direction
\* throughout the page), so that the sequence of a page is determined by the
\* store, the limit and the cursor.
ListOrderStable ==
  \A s \in Slots :
    (Done(s, "list") /\ req[s].resp.code = 200) =>
      \E up \in BOOLEAN : OrderedWithTiebreak(PageIds(s), up)

\* the stored tag whose hash is the hash of the key, if there is one
Owner(key) == {i \in 1..Len(tags) : ~Argon2Rejects(tags[i].apiKeyHash) /\ verifyApiKey(key, tags[i].apiKeyHash)}

\* C19: over a Tag table that holds a malformed credential hash, resolution
\* never raises: a request with the secret of a tag whose hash is intact is
\* given that tag, a request with any other value is answered 401, and no
\* request is answered with a server error or given a tag its key does not
\* verify against.
MalformedHashTolerated ==
  \A s \in Slots :
    req[s].op \in {"updateWallet", "create", "list", "get"} =>
      /\ \A i \in Owner(req[s].key) : req[s].tag = [id |-> i, username |-> tags[i].username]
      /\ Owner(req[s].key) = {} =>
           /\ req[s].tag = NoTag
           /\ req[s].resp = [code |-> 401, message |-> "Invalid or missing API key"]
      /\ req[s].pc = "done" => req[s].resp.code # 500

\* the requests of the protected routes
IsProtected(s) == req[s].op \in {"updateWallet", "create", "list", "get"}

\* the identity the request's own x-api-key resolves to
OwnIdentity(s) == resolveTagFromApiKey(req[s].key, tags)

\* C20: with requests of different identities interleaved, the tag attached
\* to a request is the one its own secret resolves to, from the hook to the
\* reply; each handler acts for that identity: a get replies what that
\* identity may see, a list returns that identity's receipts, a create is
\* checked and recorded for it, an update changes its row; and a request
\* slot that holds no request holds no tag.
RequestScopedIdentity ==
  /\ [](\A s \in Slots :
          /\ IsProtected(s) => req[s].tag = OwnIdentity(s)
          /\ ~IsProtected(s) => "tag" \notin DOMAIN req[s]
          /\ Done(s, "get") /\ req[s].tag # NoTag =>
               req[s].resp = GetReply(receipts, tags, req[s].body.id, OwnIdentity(s))
          /\ Done(s, "list") /\ req[s].tag # NoTag =>
               Range(PageIds(s)) = VisibleTo(receipts, OwnIdentity(s).id)
          /\ Done(s, "create") /\ req[s].tag # NoTag /\ req[s].resp.code = 403 =>
               OwnIdentity(s).username \notin {req[s].body.fromTag, req[s].body.toTag})
  /\ [][\A s \in Slots :
          (IsProtected(s) /\ req[s].pc # "done" /\ req'[s].pc = "done") =>
            /\ Len(receipts') > Len(receipts) => creator'[Len(creator')] = OwnIdentity(s).id
            /\ \A i \in 1..Len(tags) : tags'[i] # tags[i] => i = OwnIdentity(s).id]_vars

\* a get was answered with its item while the request of another identity
\* was between its hook and its handler
AnsweredBesideAnother ==
  \E s, o \in Slots :
    /\ Done(s, "get") /\ req[s].resp.code = 200
    /\ IsProtected(o) /\ req[o].pc = "handler"
    /\ req[o].tag # NoTag /\ req[o].tag # req[s].tag
    /\ ~IsPartyOf(req[o].tag.id, req[s].body.id)

\* the reply of a list that found no row
EmptyPage == [code |-> 200, items |-> <<>>]

\* a list request of slot s that carries a cursor which is not the id of a
\* receipt its caller is party to
HasForeignCursor(s) ==
  /\ Done(s, "list") /\ req[s].tag # NoTag
  /\ req[s].body.cursor # 0
  /\ req[s].body.cursor \notin VisibleTo(receipts, req[s].tag.id)

\* C21: a list whose cursor is not the id of a receipt the caller is party to
\* is answered with the empty page and no nextCursor, whatever the limit and
\* whatever receipts the caller has: the reply is the same for the id of a
\* receipt between two other identities and for an id that is nowhere in the
\* store.
CursorHidesExistence ==
  \A s \in Slots : HasForeignCursor(s) => req[s].resp = EmptyPage

\* Ann, party to two receipts, lists with the id of a receipt from Bob to
\* himself as the cursor, and that receipt is no newer than one of hers
ListedFromOthersReceipt ==
  \E s \in Slots :
    /\ HasForeignCursor(s)
    /\ req[s].body.cursor \in 1..Len(receipts)
    /\ Cardinality(VisibleTo(receipts, req[s].tag.id)) >= 2
    /\ \E i \in VisibleTo(receipts, req[s].tag.id) :
         i # req[s].body.cursor /\ receipts[i].createdAt <= receipts[req[s].body.cursor].createdAt

\* the receipts the walking client was party to when it asked for its first page
Snapshot == {id \in VisibleTo(receipts, walk.who) : id <= walk.base}

\* how many times id is among the ids the walking client has received
TimesReceived(id) == Cardinality({i \in 1..Len(walk.ids) : walk.ids[i] = id})

\* a receipt was created after the first page was asked for
CreatedDuringWalk == walk.phase # "none" /\ Len(receipts) > walk.base

\* C22: when receipts are created between the page requests of a client, no
\* receipt that existed at its first page request is returned twice, and when
\* the last page has come each of them has been returned once.
PagingUnderCreation ==
  (walk.phase # "none" /\ CreatedDuringWalk) =>
    /\ \A id \in Snapshot : TimesReceived(id) <= 1
    /\ walk.phase = "done" => \A id \in Snapshot : TimesReceived(id) = 1

\* the ids of the tags in the store
TagIds == {tags[i].id : i \in 1..Len(tags)}

\* C23: the fromTagId and the toTagId of every stored receipt are ids of
\* stored tags, those of the tags its create request named (the two may be
\* one tag); no step removes a tag or changes the id or the username of one,
\* whatever the interleaving of create, register and update-wallet requests.
ReferentialIntegrity ==
  /\ [](\A i \in 1..Len(receipts) :
          /\ receipts[i].fromTagId \in TagIds
          /\ receipts[i].toTagId \in TagIds
          /\ receipts[i].fromTagId = TagByUsername(tags, created[i].body.fromTag).id
          /\ receipts[i].toTagId = TagByUsername(tags, created[i].body.toTag).id)
  /\ [][/\ Len(tags') >= Len(tags)
        /\ \A i \in 1..Len(tags) :
             tags'[i].id = tags[i].id /\ tags'[i].username = tags[i].username]_vars

\* a receipt to a tag registered after the first three, beside a receipt
\* from bob to himself, after bob's wallet address was updated
ReceiptToNewcomer ==
  /\ \E i \in 1..Len(receipts) : receipts[i].toTagId > Len(SeedNames)
  /\ \E i \in 1..Len(receipts) : receipts[i].fromTagId = receipts[i].toTagId
  /\ TagByUsername(tags, Bob).walletAddress = "w2"
====
